---- MODULE Spec2Model ----
(***************************************************************************)
(* Model of the Contour ShuttlePro raw-input handler (src/src/main.rs):    *)
(* the report decoder SystemState::update, the process-wide GLOBAL_STATE   *)
(* it differences against, and the WM_INPUT branch of wndproc that feeds   *)
(* it and maps the returned events to key / scroll / toast requests.       *)
(***************************************************************************)
EXTENDS Integers, Sequences, FiniteSets, TLC

(***************************************************************************)
(* Bounds of the explored input space.                                     *)
(***************************************************************************)
\* report ids offered by the environment are 0..MaxId
MaxId == 1
\* fill bytes offered by the environment are 0..MaxFill
MaxFill == 1
\* the count of update calls is tracked exactly below MaxReports
MaxReports == 3

(***************************************************************************)
(* Fixed-width integer types of the Rust source.                           *)
(***************************************************************************)
InU8(x) == x >= 0 /\ x <= 255
InI16(x) == x >= -32768 /\ x <= 32767
InU16(x) == x >= 0 /\ x <= 65535

\* the value of `1 << k`
Pow2(k) == 2 ^ k

\* `keys & (1 << k) != 0`
BitSet(keys, k) == (keys \div Pow2(k)) % 2 = 1

(***************************************************************************)
(* enum ContourEvents.  An event is a record [tag, arg]; the unit variants *)
(* WheelLeft and WheelRight carry arg = 0.                                 *)
(***************************************************************************)
Jog(x) == [tag |-> "Jog", arg |-> x]
WheelLeft == [tag |-> "WheelLeft", arg |-> 0]
WheelRight == [tag |-> "WheelRight", arg |-> 0]
ButtonUp(k) == [tag |-> "ButtonUp", arg |-> k]
ButtonDown(k) == [tag |-> "ButtonDown", arg |-> k]

(***************************************************************************)
(* struct ContourHidEvent and the initial GLOBAL_STATE.                    *)
(***************************************************************************)
ContourHidEvent(id, jog, wheel, fill, keys) ==
    [id |-> id, jog |-> jog, wheel |-> wheel, fill |-> fill, keys |-> keys]

Sentinel == ContourHidEvent(255, 0, 0, 0, 0)

InitialState == [last |-> Sentinel, scroll_zoom |-> 0]

(***************************************************************************)
(* SystemState::update, step by step as the source computes it.            *)
(***************************************************************************)
\* lines 63-65: the stored wheel is overwritten when the stored id is not 0
RebasedWheel_SentinelOnly(last, new) ==
    IF last.id = 255 THEN new.wheel ELSE last.wheel

RebasedWheel(last, new) == IF last.id # 0 THEN new.wheel ELSE last.wheel

\* lines 67-69
JogEvents_LevelTriggered(last, new) ==
    IF new.jog # 0 THEN <<Jog(new.jog)>> ELSE <<>>

JogEvents_Delta(last, new) ==
    IF last.jog # new.jog THEN <<Jog(new.jog - last.jog)>> ELSE <<>>

JogEvents_OldValue(last, new) ==
    IF last.jog # new.jog THEN <<Jog(last.jog)>> ELSE <<>>

JogEvents(last, new) ==
    IF last.jog # new.jog THEN <<Jog(new.jog)>> ELSE <<>>

\* line 71: `new.wheel as i16 - self.last.wheel as i16`
RawDelta_U8(lastWheel, newWheel) ==
    [val |-> newWheel - lastWheel, ovf |-> ~InU8(newWheel - lastWheel)]

RawDelta(lastWheel, newWheel) ==
    [val |-> newWheel - lastWheel, ovf |-> ~InI16(newWheel - lastWheel)]

\* lines 72-77: the two corrections, applied one after the other
CorrectedDelta_NoWrap(raw) == raw

CorrectedDelta_Inclusive(raw) ==
    LET d1 == IF raw >= 128 THEN raw - 256 ELSE raw
        d2 == IF d1 <= -128 THEN d1 + 256 ELSE d1
    IN  d2

CorrectedDelta(raw) ==
    LET d1 == IF raw > 128 THEN raw - 256 ELSE raw
        d2 == IF d1 < -128 THEN d1 + 256 ELSE d1
    IN  d2

\* lines 70-83
WheelEvents(lastWheel, newWheel) ==
    IF lastWheel # newWheel
    THEN LET delta == CorrectedDelta(RawDelta(lastWheel, newWheel).val)
         IN  <<IF delta < 0 THEN WheelLeft ELSE WheelRight>>
    ELSE <<>>

WheelOverflow(lastWheel, newWheel) ==
    /\ lastWheel # newWheel
    /\ \/ RawDelta(lastWheel, newWheel).ovf
       \/ ~InI16(CorrectedDelta(RawDelta(lastWheel, newWheel).val))

\* lines 86-96: one iteration of the button loop
ButtonMatch_Swapped(lastKeys, newKeys, k) ==
    LET last_key == BitSet(lastKeys, k)
        new_key == BitSet(newKeys, k)
    IN  IF ~last_key /\ new_key THEN <<ButtonUp(k)>>
        ELSE IF last_key /\ ~new_key THEN <<ButtonDown(k)>>
        ELSE <<>>

ButtonMatch(lastKeys, newKeys, k) ==
    LET last_key == BitSet(lastKeys, k)
        new_key == BitSet(newKeys, k)
    IN  IF ~last_key /\ new_key THEN <<ButtonDown(k)>>
        ELSE IF last_key /\ ~new_key THEN <<ButtonUp(k)>>
        ELSE <<>>

\* line 85: `for k in 0u16..15`, from k up to (not including) hi
RECURSIVE ButtonLoop(_, _, _, _)
ButtonLoop(lastKeys, newKeys, k, hi) ==
    IF k >= hi THEN <<>>
    ELSE ButtonMatch(lastKeys, newKeys, k)
         \o ButtonLoop(lastKeys, newKeys, k + 1, hi)

\* lines 84-98
ButtonEvents_Through15(lastKeys, newKeys) ==
    IF lastKeys # newKeys THEN ButtonLoop(lastKeys, newKeys, 0, 16) ELSE <<>>

ButtonEvents_From1(lastKeys, newKeys) ==
    IF lastKeys # newKeys THEN ButtonLoop(lastKeys, newKeys, 1, 15) ELSE <<>>

ButtonEvents(lastKeys, newKeys) ==
    IF lastKeys # newKeys THEN ButtonLoop(lastKeys, newKeys, 0, 15) ELSE <<>>

\* lines 86-87: `1 << k` on a u16 overflows when the result does not fit
ShiftOverflow(lastKeys, newKeys) ==
    /\ lastKeys # newKeys
    /\ \E k \in 0..14 : ~InU16(Pow2(k))

\* line 100: `self.last = new`
StoreLast_DropFill(last, new) == [new EXCEPT !.fill = last.fill]

StoreLast(last, new) == new

\* lines 61-102: the returned events, in push order
UpdateEvt_ButtonsFirst(self, new) ==
    LET wheel == RebasedWheel(self.last, new)
    IN  ButtonEvents(self.last.keys, new.keys)
        \o JogEvents(self.last, new)
        \o WheelEvents(wheel, new.wheel)

UpdateEvt(self, new) ==
    LET wheel == RebasedWheel(self.last, new)
    IN  JogEvents(self.last, new)
        \o WheelEvents(wheel, new.wheel)
        \o ButtonEvents(self.last.keys, new.keys)

\* lines 61-102: events, the state left behind, and whether an arithmetic
\* overflow (a panic in a checked build) happened on the way
update(self, new) ==
    [evt   |-> UpdateEvt(self, new),
     state |-> [self EXCEPT !.last = StoreLast(self.last, new)],
     panic |-> \/ WheelOverflow(RebasedWheel(self.last, new), new.wheel)
               \/ ShiftOverflow(self.last.keys, new.keys)]

(***************************************************************************)
(* process_contour_event: the loop over the returned events.               *)
(***************************************************************************)
SendKey(key) == [call |-> "send_key", what |-> key, n |-> 0]
SendHWheel(dir, n) == [call |-> "send_h_wheel", what |-> dir, n |-> n]
Message(text, n) == [call |-> "message", what |-> text, n |-> n]

\* lines 260-290: the requests issued for one event
EventRequests(evt, zoom) ==
    CASE evt.tag = "Jog" ->
            IF evt.arg < 0 THEN <<SendKey("VK_OEM_4")>>
            ELSE IF evt.arg > 0 THEN <<SendKey("VK_OEM_6")>>
            ELSE <<>>
      [] evt.tag = "WheelLeft" -> <<SendHWheel("Left", Pow2(zoom))>>
      [] evt.tag = "WheelRight" -> <<SendHWheel("Right", Pow2(zoom))>>
      [] evt.tag = "ButtonUp" ->
            IF evt.arg \in 0..3
            THEN <<Message("Scroll speed", Pow2(evt.arg))>>
            ELSE IF evt.arg = 6 THEN <<SendKey("VK_SPACE")>>
            ELSE IF evt.arg \in {13, 14}
            THEN <<SendKey("VK_OEM_PLUS"), Message("Playback speed normal", 0)>>
            ELSE <<>>
      [] OTHER -> <<>>

\* lines 277-281: the scroll_zoom left by one event
EventZoom_Through4(evt, zoom) ==
    IF evt.tag = "ButtonUp" /\ evt.arg \in 0..4 THEN evt.arg ELSE zoom

EventZoom(evt, zoom) ==
    IF evt.tag = "ButtonUp" /\ evt.arg \in 0..3 THEN evt.arg ELSE zoom

\* lines 259-291: the scroll_zoom the loop leaves behind
RECURSIVE ProcessZoom(_, _)
ProcessZoom(evts, zoom) ==
    IF evts = <<>> THEN zoom
    ELSE ProcessZoom(Tail(evts), EventZoom(Head(evts), zoom))

\* lines 259-291: the events are handled in order; the requests issued
RECURSIVE RequestsAt(_, _)
RequestsAt(evts, zoom) ==
    IF evts = <<>> THEN <<>>
    ELSE EventRequests(Head(evts), zoom) \o RequestsAt(Tail(evts), zoom)

ProcessSent_ZoomFirst(evts, zoom) == RequestsAt(evts, ProcessZoom(evts, zoom))

RECURSIVE ProcessSent(_, _)
ProcessSent(evts, zoom) ==
    IF evts = <<>> THEN <<>>
    ELSE EventRequests(Head(evts), zoom)
         \o ProcessSent(Tail(evts), EventZoom(Head(evts), zoom))

(***************************************************************************)
(* The reports and raw-input records the environment may deliver.          *)
(***************************************************************************)
Ids == 0..MaxId
Jogs == {-128, 0, 2}
Wheels == {0, 128, 129, 255}
KeyMasks == {0, 1, 8, 64, 72, 32768}

\* key masks that hold only button 1 or only button 2
SpeedMasks == {2, 4}

\* key masks with all of the buttons 0..14 held, without and with bit 15
FullMasks == {32767, 65535}

\* every combination of id, jog, wheel and keys with fill 0; the other fill
\* bytes on otherwise blank reports; the speed masks on reports at rest; the
\* full masks at two jog and two wheel values
Reports ==
    {ContourHidEvent(i, j, w, 0, k) :
        i \in Ids, j \in Jogs, w \in Wheels, k \in KeyMasks}
    \cup {ContourHidEvent(i, 0, 0, f, 0) : i \in Ids, f \in 1..MaxFill}
    \cup {ContourHidEvent(i, 0, 0, 0, k) : i \in Ids, k \in SpeedMasks}
    \cup {ContourHidEvent(i, j, w, 0, k) :
             i \in Ids, j \in {0, 2}, w \in {0, 128}, k \in FullMasks}

\* dwSizeHid values of the records delivered
HidSizes == {5, 6}

\* line 105: CONTOUR_ID, as the parts of a lower-cased device path
CONTOUR_ID == <<"hid", "vid_0b33", "pid_0030">>

\* device names of the records delivered, lower-cased (line 237)
DevNames ==
    {<<"hid", "vid_0b33", "pid_0030", "mi_00">>,
     <<"hid", "vid_0b33", "pid_0020", "mi_00">>,
     <<"hid", "vid_046d", "pid_0030", "mi_00">>,
     <<"hid">>}

\* line 238: `devn.starts_with(CONTOUR_ID)`
StartsWith(devn, prefix) ==
    /\ Len(devn) >= Len(prefix)
    /\ SubSeq(devn, 1, Len(prefix)) = prefix

\* line 238: the test that lets a record through to process_contour_event
IsContourRecord_EitherTest(devn, dwSizeHid) ==
    StartsWith(devn, CONTOUR_ID) \/ dwSizeHid = 6

IsContourRecord(devn, dwSizeHid) ==
    StartsWith(devn, CONTOUR_ID) /\ dwSizeHid = 6

RawInput(devn, dwSizeHid) == [devn |-> devn, dwSizeHid |-> dwSizeHid]

\* no record was read
NoRawInput == RawInput(<<>>, 0)

(***************************************************************************)
(* What a consumer of the returned events can reconstruct from them: the   *)
(* set of held buttons and the payload of the latest Jog event.            *)
(***************************************************************************)
NothingReplayed == [held |-> {}, jog |-> 0]

ReplayEvent(r, e) ==
    CASE e.tag = "ButtonDown" -> [r EXCEPT !.held = @ \cup {e.arg}]
      [] e.tag = "ButtonUp" -> [r EXCEPT !.held = @ \ {e.arg}]
      [] e.tag = "Jog" -> [r EXCEPT !.jog = e.arg]
      [] OTHER -> r

RECURSIVE ReplayAll(_, _)
ReplayAll(r, evts) ==
    IF evts = <<>> THEN r
    ELSE ReplayAll(ReplayEvent(r, Head(evts)), Tail(evts))

(***************************************************************************)
(* State.                                                                  *)
(***************************************************************************)
VARIABLES
    GLOBAL_STATE,   \* static mut GLOBAL_STATE
    pc,             \* "wait": in GetMessageA; "handled": wndproc about to
                    \* return; "panic": update aborted; "exit": loop left
    prev,           \* GLOBAL_STATE as it was when the current call began
    rawinput,       \* the device name and payload size of the record read
                    \* in the current call
    hiddata,        \* the report handed to update in the current call
    ret,            \* what update returned in the current call: the events,
                    \* the state it left, and whether it overflowed
    sent,           \* the requests issued in the current call
    stdout,         \* what the current call printed
    nreports,       \* update calls so far, exact below MaxReports
    lastNew,        \* the report handed to the latest update call so far
    prevNew,        \* in a call: the report handed to the update call before
    replay,         \* every event returned so far, replayed in order
    prevReplay      \* in a call: replay as it was when the call began

vars == <<GLOBAL_STATE, pc, prev, rawinput, hiddata, ret, sent, stdout,
          nreports, lastNew, prevNew, replay, prevReplay>>

NoReport == ContourHidEvent(0, 0, 0, 0, 0)

\* update was not called
NoReturn(state) == [evt |-> <<>>, state |-> state, panic |-> FALSE]

Init ==
    /\ GLOBAL_STATE = InitialState
    /\ pc = "wait"
    /\ prev = InitialState
    /\ rawinput = NoRawInput
    /\ hiddata = NoReport
    /\ ret = NoReturn(InitialState)
    /\ sent = <<>>
    /\ stdout = <<>>
    /\ nreports = 0
    /\ lastNew = NoReport
    /\ prevNew = NoReport
    /\ replay = NothingReplayed
    /\ prevReplay = NothingReplayed

CountUp(n) == IF n < MaxReports THEN n + 1 ELSE n

\* wndproc, WM_INPUT, lines 220-222 and 234-236: a raw-input call failed
WmInputFailed ==
    /\ pc = "wait"
    /\ pc' = "handled"
    /\ prev' = GLOBAL_STATE
    /\ rawinput' = NoRawInput
    /\ hiddata' = NoReport
    /\ ret' = NoReturn(GLOBAL_STATE)
    /\ sent' = <<>>
    /\ stdout' = <<>>
    /\ prevNew' = lastNew
    /\ prevReplay' = replay
    /\ UNCHANGED <<GLOBAL_STATE, nreports, lastNew, replay>>

\* wndproc, WM_INPUT, lines 238-242: not the Contour device, or not 6 bytes
WmInputOtherDev ==
    /\ pc = "wait"
    /\ \E devn \in DevNames, dwSizeHid \in HidSizes :
          /\ ~IsContourRecord(devn, dwSizeHid)
          /\ rawinput' = RawInput(devn, dwSizeHid)
    /\ stdout' = <<"OtherDev">>
    /\ pc' = "handled"
    /\ prev' = GLOBAL_STATE
    /\ hiddata' = NoReport
    /\ ret' = NoReturn(GLOBAL_STATE)
    /\ sent' = <<>>
    /\ prevNew' = lastNew
    /\ prevReplay' = replay
    /\ UNCHANGED <<GLOBAL_STATE, nreports, lastNew, replay>>

\* wndproc, WM_INPUT, line 239, and process_contour_event, lines 250-292
WmInputContour ==
    /\ pc = "wait"
    /\ \E devn \in DevNames, dwSizeHid \in HidSizes, new \in Reports :
          /\ IsContourRecord(devn, dwSizeHid)
          /\ rawinput' = RawInput(devn, dwSizeHid)
          /\ prev' = GLOBAL_STATE
          /\ hiddata' = new
          /\ ret' = update(GLOBAL_STATE, new)
          /\ prevNew' = lastNew
          /\ prevReplay' = replay
          /\ IF ret'.panic
             THEN /\ pc' = "panic"
                  /\ stdout' = <<"HID">>
                  /\ sent' = <<>>
                  /\ UNCHANGED <<GLOBAL_STATE, nreports, lastNew, replay>>
             ELSE /\ pc' = "handled"
                  /\ stdout' = <<"HID", "EVT">>
                  /\ sent' = ProcessSent(ret'.evt, ret'.state.scroll_zoom)
                  /\ GLOBAL_STATE' =
                        [ret'.state EXCEPT !.scroll_zoom =
                            ProcessZoom(ret'.evt, ret'.state.scroll_zoom)]
                  /\ nreports' = CountUp(nreports)
                  /\ lastNew' = new
                  /\ replay' = ReplayAll(replay, ret'.evt)

\* wndproc returns LRESULT(0), line 244: the locals of the call are gone
WndprocReturn ==
    /\ pc = "handled"
    /\ pc' = "wait"
    /\ prev' = GLOBAL_STATE
    /\ rawinput' = NoRawInput
    /\ hiddata' = NoReport
    /\ ret' = NoReturn(GLOBAL_STATE)
    /\ sent' = <<>>
    /\ stdout' = <<>>
    /\ prevNew' = lastNew
    /\ prevReplay' = replay
    /\ UNCHANGED <<GLOBAL_STATE, nreports, lastNew, replay>>

\* wndproc, WM_DESTROY and the tray click, lines 188-199, and the loop of
\* xmain, line 163: PostQuitMessage ends the message loop
PostQuit ==
    /\ pc = "wait"
    /\ pc' = "exit"
    /\ UNCHANGED <<GLOBAL_STATE, prev, rawinput, hiddata, ret, sent, stdout,
                   nreports, lastNew, prevNew, replay, prevReplay>>

Next ==
    \/ WmInputFailed
    \/ WmInputOtherDev
    \/ WmInputContour
    \/ WndprocReturn
    \/ PostQuit

Spec == Init /\ [][Next]_vars

(***************************************************************************)
(* What a call of update is observed to have done.                         *)
(***************************************************************************)
\* update has returned in the current call ("EVT=" is printed at line 258)
UpdateReturned == pc = "handled" /\ stdout = <<"HID", "EVT">>

\* the stored previous report and the new report of the current call
Previous == prev.last
New == hiddata
Events == ret.evt

IsJog(e) == e.tag = "Jog"
IsWheel(e) == e.tag \in {"WheelLeft", "WheelRight"}
IsButton(e) == e.tag \in {"ButtonDown", "ButtonUp"}

JogEvts == SelectSeq(Events, IsJog)
WheelEvts == SelectSeq(Events, IsWheel)
ButtonEvts == SelectSeq(Events, IsButton)

\* bits 0..14 of a key mask that are set
Held(keys) == {k \in 0..14 : (keys \div (2 ^ k)) % 2 = 1}

\* the current call is the n-th call of update
IsCall(n) == UpdateReturned /\ nreports = n

\* the current call of update had a call before it
HasPreviousCall == UpdateReturned /\ nreports >= 2

(***************************************************************************)
(* C1: the first update after startup returns no wheel event whatever the  *)
(* first report, and the second update, given a wheel value different from *)
(* the first report's, returns a wheel event.                              *)
(***************************************************************************)
C1_FirstSuppressedSecondEmits ==
    /\ IsCall(1) => WheelEvts = <<>>
    /\ (IsCall(2) /\ New.wheel # prevNew.wheel) => WheelEvts # <<>>

(***************************************************************************)
(* C2: with a stored last report of wheel 255 a new report of wheel 0      *)
(* returns exactly one wheel event, WheelRight; with a stored last report  *)
(* of wheel 0 a new report of wheel 255 returns exactly one, WheelLeft.    *)
(***************************************************************************)
C2_WheelWraparound ==
    HasPreviousCall =>
        /\ (Previous.wheel = 255 /\ New.wheel = 0) => WheelEvts = <<WheelRight>>
        /\ (Previous.wheel = 0 /\ New.wheel = 255) => WheelEvts = <<WheelLeft>>

(***************************************************************************)
(* C3: in the events of one update a Jog event comes before a wheel event, *)
(* wheel events come before button events, and button events come in       *)
(* strictly increasing bit index; a report that only moves the jog from 0  *)
(* to 2 and clears key bit 6 returns exactly <<Jog(2), ButtonUp(6)>>.      *)
(* The order is stated on neighbours; it carries over to every pair.       *)
(***************************************************************************)
Rank(e) == IF IsJog(e) THEN 0 ELSE IF IsWheel(e) THEN 1 ELSE 2

JogAndRelease6 ==
    /\ UpdateReturned
    /\ Previous.jog = 0
    /\ 6 \in Held(Previous.keys)
    /\ New = [Previous EXCEPT !.jog = 2, !.keys = @ - 64]

C3_EmissionOrder ==
    UpdateReturned =>
        /\ \A i \in 1..(Len(Events) - 1) :
              /\ Rank(Events[i]) <= Rank(Events[i + 1])
              /\ (IsButton(Events[i]) /\ IsButton(Events[i + 1]))
                    => Events[i].arg < Events[i + 1].arg
        /\ JogAndRelease6 => Events = <<Jog(2), ButtonUp(6)>>

C3_Witness == JogAndRelease6 /\ Events = <<Jog(2), ButtonUp(6)>>

(***************************************************************************)
(* C4: update(A) followed by update(A) returns no events from the second   *)
(* call and leaves the stored last report equal to A, from any state.      *)
(***************************************************************************)
SameReportTwice == HasPreviousCall /\ New = prevNew

C4_SecondCallIdempotent ==
    SameReportTwice => Events = <<>> /\ GLOBAL_STATE.last = New

C4_Witness ==
    /\ SameReportTwice
    /\ New.jog # 0 /\ New.wheel # 0 /\ New.keys # 0
    /\ Events = <<>>

(***************************************************************************)
(* C5: for every bit k in 0..14, ButtonDown(k) is returned iff bit k goes  *)
(* from 0 to 1 and ButtonUp(k) iff it goes from 1 to 0, each at most once; *)
(* a report that differs only by bit 3 going 0 to 1 returns exactly        *)
(* <<ButtonDown(3)>> and leaves bit 3 set in the stored keys.              *)
(***************************************************************************)
OnlyPress3 ==
    /\ UpdateReturned
    /\ 3 \notin Held(Previous.keys)
    /\ New = [Previous EXCEPT !.keys = @ + 8]

\* the returned events equal to e, as positions
Positions(e) == {i \in 1..Len(Events) : Events[i] = e}

C5_ButtonEdges ==
    UpdateReturned =>
        /\ LET pressed == Held(New.keys) \ Held(Previous.keys)
               released == Held(Previous.keys) \ Held(New.keys)
           IN  \A k \in 0..14 :
                  /\ Cardinality(Positions(ButtonDown(k))) =
                        IF k \in pressed THEN 1 ELSE 0
                  /\ Cardinality(Positions(ButtonUp(k))) =
                        IF k \in released THEN 1 ELSE 0
        /\ OnlyPress3 =>
              /\ Events = <<ButtonDown(3)>>
              /\ 3 \in Held(GLOBAL_STATE.last.keys)

C5_Witness == OnlyPress3 /\ Events = <<ButtonDown(3)>>

(***************************************************************************)
(* C6: no update returns ButtonDown(15) or ButtonUp(15), and when two      *)
(* consecutive reports differ only in bit 15 of keys the second update     *)
(* returns no events while the stored keys take the new bit 15.            *)
(***************************************************************************)
OnlyBit15Toggled ==
    /\ HasPreviousCall
    /\ New.keys # prevNew.keys
    /\ New.keys % 32768 = prevNew.keys % 32768
    /\ New = [prevNew EXCEPT !.keys = New.keys]

C6_Bit15Ignored ==
    UpdateReturned =>
        /\ \A i \in 1..Len(Events) : IsButton(Events[i]) => Events[i].arg # 15
        /\ OnlyBit15Toggled =>
              /\ Events = <<>>
              /\ GLOBAL_STATE.last.keys = New.keys

C6_Witness ==
    /\ OnlyBit15Toggled
    /\ Events = <<>>
    /\ GLOBAL_STATE.last.keys \div 32768 # prev.last.keys \div 32768

(***************************************************************************)
(* C7: a Jog event is returned iff the new jog differs from the stored     *)
(* jog; there is at most one and its payload is the new jog itself, also   *)
(* when that is 0, never the difference; a first report with a non-zero    *)
(* jog returns Jog(new.jog).                                               *)
(***************************************************************************)
C7_JogEdge ==
    UpdateReturned =>
        /\ JogEvts = IF New.jog # Previous.jog THEN <<Jog(New.jog)>> ELSE <<>>
        /\ (IsCall(1) /\ New.jog # 0) => JogEvts = <<Jog(New.jog)>>

C7_Witness ==
    /\ UpdateReturned
    /\ Previous.jog = 2
    /\ New.jog = 0
    /\ JogEvts = <<Jog(0)>>

(***************************************************************************)
(* C8: after update(new) the stored last report equals new in every field, *)
(* whatever events were returned, and update leaves scroll_zoom unchanged. *)
(***************************************************************************)
C8_StoresNewKeepsZoom ==
    UpdateReturned =>
        /\ ret.state.last = New
        /\ GLOBAL_STATE.last = New
        /\ ret.state.scroll_zoom = prev.scroll_zoom

C8_Witness ==
    /\ UpdateReturned
    /\ Events # <<>>
    /\ New.fill # Previous.fill
    /\ New.id # Previous.id
    /\ ret.state.last = New
    /\ ret.state.scroll_zoom = prev.scroll_zoom
    /\ GLOBAL_STATE.scroll_zoom # prev.scroll_zoom

(***************************************************************************)
(* C9: at most one wheel event per update; when there is one, with         *)
(* d = new.wheel - previous.wheel corrected by -256 if d > 128 and by +256 *)
(* if d < -128, it is WheelLeft iff the corrected d < 0 and WheelRight     *)
(* otherwise: forward distances 1..127 modulo 256 give WheelRight and      *)
(* 129..255 give WheelLeft.                                                *)
(***************************************************************************)
ClaimedDelta ==
    LET d == New.wheel - Previous.wheel
    IN  IF d > 128 THEN d - 256 ELSE IF d < -128 THEN d + 256 ELSE d

ForwardDistance == (New.wheel - Previous.wheel) % 256

C9_WheelDirection ==
    UpdateReturned =>
        /\ Len(WheelEvts) <= 1
        /\ Len(WheelEvts) = 1 =>
              /\ WheelEvts[1] = IF ClaimedDelta < 0 THEN WheelLeft ELSE WheelRight
              /\ ForwardDistance \in 1..127 => WheelEvts[1] = WheelRight
              /\ ForwardDistance \in 129..255 => WheelEvts[1] = WheelLeft

C9_Witness ==
    /\ UpdateReturned
    /\ New.wheel - Previous.wheel = 255
    /\ WheelEvts = <<WheelLeft>>

(***************************************************************************)
(* C10: update is total: it never overflows or aborts, and it returns at   *)
(* most 17 events: at most one Jog, one wheel event and 15 button events.  *)
(***************************************************************************)
C10_Total ==
    /\ pc # "panic"
    /\ ~ret.panic
    /\ UpdateReturned =>
          /\ Len(Events) <= 17
          /\ Len(JogEvts) <= 1
          /\ Len(WheelEvts) <= 1
          /\ Len(ButtonEvts) <= 15

C10_Witness ==
    /\ UpdateReturned
    /\ Len(Events) = 17
    /\ Len(ButtonEvts) = 15

(***************************************************************************)
(* C11: a record whose device name does not start with the Contour id or   *)
(* whose payload size is not 6 never reaches update: handling it returns   *)
(* no events, issues no requests and leaves the stored last report and     *)
(* scroll_zoom unchanged, so the next accepted report is differenced       *)
(* against the last accepted one.                                          *)
(***************************************************************************)
\* a record was read in the current call and it is not a 6-byte Contour one
ForeignRecord ==
    /\ pc \in {"handled", "panic"}
    /\ rawinput # NoRawInput
    /\ ~(StartsWith(rawinput.devn, CONTOUR_ID) /\ rawinput.dwSizeHid = 6)

C11_ForeignRecordIgnored ==
    /\ ForeignRecord =>
          /\ ~UpdateReturned
          /\ pc = "handled"
          /\ Events = <<>>
          /\ sent = <<>>
          /\ GLOBAL_STATE = prev
          /\ lastNew = prevNew
    /\ HasPreviousCall => Previous = prevNew

C11_Witness ==
    /\ ForeignRecord
    /\ StartsWith(rawinput.devn, CONTOUR_ID)
    /\ nreports >= 1
    /\ GLOBAL_STATE.last = lastNew
    /\ GLOBAL_STATE.last.keys # 0
    /\ GLOBAL_STATE.scroll_zoom # 0

(***************************************************************************)
(* C12: update returns a wheel event iff the stored previous id is 0 and   *)
(* the new wheel differs from the stored previous wheel; when the stored   *)
(* id is non-zero the stored wheel is overwritten with the new wheel       *)
(* before the comparison and no wheel event is returned, so as long as     *)
(* every report has a non-zero id no wheel event is returned.              *)
(***************************************************************************)
\* no report with id 0 has been stored when the current call began: there
\* was no call before, or the report of the call before had a non-zero id
NoZeroIdBefore == IsCall(1) \/ (HasPreviousCall /\ prevNew.id # 0)

C12_WheelOnlyAfterIdZero ==
    UpdateReturned =>
        /\ WheelEvts # <<>>
              <=> (Previous.id = 0 /\ New.wheel # Previous.wheel)
        /\ Previous.id # 0 =>
              /\ RebasedWheel(Previous, New) = New.wheel
              /\ WheelEvts = <<>>
        /\ NoZeroIdBefore => WheelEvts = <<>>

C12_Witness ==
    /\ HasPreviousCall
    /\ prevNew.id # 0
    /\ Previous.id # 0
    /\ New.wheel # Previous.wheel
    /\ WheelEvts = <<>>

(***************************************************************************)
(* C13: in the wheel branch the raw difference lies in -255..255, so the   *)
(* 16-bit subtraction cannot overflow; the corrected delta lies in         *)
(* -128..128 and is never 0; a change of exactly +128 gives WheelRight and *)
(* a change of exactly -128 gives WheelLeft.                               *)
(***************************************************************************)
\* the wheel branch was taken in the current call
WheelBranch == UpdateReturned /\ RebasedWheel(Previous, New) # New.wheel

BranchRaw == RawDelta(RebasedWheel(Previous, New), New.wheel).val
BranchCorrected == CorrectedDelta(BranchRaw)

C13_DeltaRanges ==
    WheelBranch =>
        /\ BranchRaw \in -255..255
        /\ BranchRaw = New.wheel - Previous.wheel
        /\ ~RawDelta(RebasedWheel(Previous, New), New.wheel).ovf
        /\ BranchCorrected \in -128..128
        /\ BranchCorrected # 0
        /\ BranchRaw = 128 => WheelEvts = <<WheelRight>>
        /\ BranchRaw = -128 => WheelEvts = <<WheelLeft>>

C13_Witness ==
    /\ WheelBranch
    /\ Previous.wheel = 128
    /\ New.wheel = 0
    /\ BranchCorrected = -128
    /\ WheelEvts = <<WheelLeft>>

(***************************************************************************)
(* C14: after any sequence of update calls from the sentinel state, the    *)
(* set of held buttons obtained by replaying every returned button event   *)
(* in order equals the set of bits 0..14 set in the stored last keys; so   *)
(* for each k the events alternate ButtonDown, ButtonUp, ButtonDown, ...,  *)
(* beginning with ButtonDown.                                              *)
(***************************************************************************)
C14_ReplayedButtonsMatchKeys ==
    /\ replay.held = Held(GLOBAL_STATE.last.keys)
    /\ UpdateReturned =>
          \A i \in 1..Len(Events) :
             /\ Events[i].tag = "ButtonDown" =>
                   /\ Events[i].arg \notin prevReplay.held
                   /\ Cardinality(Positions(Events[i])) = 1
             /\ Events[i].tag = "ButtonUp" =>
                   /\ Events[i].arg \in prevReplay.held
                   /\ Cardinality(Positions(Events[i])) = 1

C14_Witness ==
    /\ UpdateReturned
    /\ prevReplay.held = {3, 6}
    /\ replay.held = {0}
    /\ Events = <<ButtonDown(0), ButtonUp(3), ButtonUp(6)>>
    /\ GLOBAL_STATE.last.keys = 1

(***************************************************************************)
(* C15: after any sequence of update calls from the sentinel state, the    *)
(* stored last jog equals the payload of the most recently returned Jog    *)
(* event, or 0 if none was returned yet; two consecutive Jog events never  *)
(* carry the same payload.                                                 *)
(***************************************************************************)
C15_StoredJogIsLatestPayload ==
    /\ replay.jog = GLOBAL_STATE.last.jog
    /\ UpdateReturned =>
          \A i \in 1..Len(JogEvts) : JogEvts[i].arg # prevReplay.jog
    /\ Len(JogEvts) <= 1

C15_Witness ==
    /\ UpdateReturned
    /\ prevReplay.jog = 2
    /\ JogEvts = <<Jog(-128)>>
    /\ replay.jog = -128
    /\ GLOBAL_STATE.last.jog = -128

(***************************************************************************)
(* C16: scroll_zoom is in 0..3 in every reachable state: it starts at 0,   *)
(* changes only when a ButtonUp(b) with b in 0..3 is handled (and is then  *)
(* b), and no other event changes it; so the number of scroll pulses       *)
(* requested per wheel event, 1 << scroll_zoom, is 1, 2, 4 or 8 and fits   *)
(* in 8 bits.                                                              *)
(***************************************************************************)
\* the positions of the events of the current call that select a speed
SpeedEvents ==
    {i \in 1..Len(Events) :
        Events[i].tag = "ButtonUp" /\ Events[i].arg \in 0..3}

LastOf(S) == CHOOSE i \in S : \A j \in S : j <= i

WheelRequests == SelectSeq(sent, LAMBDA m : m.call = "send_h_wheel")

C16_ZoomInRange ==
    /\ GLOBAL_STATE.scroll_zoom \in 0..3
    /\ nreports = 0 => GLOBAL_STATE.scroll_zoom = 0
    /\ GLOBAL_STATE.scroll_zoom =
          IF SpeedEvents = {} THEN prev.scroll_zoom
          ELSE Events[LastOf(SpeedEvents)].arg
    /\ Len(WheelRequests) = Len(WheelEvts)
    /\ \A i \in 1..Len(WheelRequests) :
          /\ WheelRequests[i].n \in {1, 2, 4, 8}
          /\ WheelRequests[i].n >= 0 /\ WheelRequests[i].n <= 255

C16_Witness ==
    /\ UpdateReturned
    /\ prev.scroll_zoom = 3
    /\ Events = <<WheelLeft, ButtonUp(1)>>
    /\ GLOBAL_STATE.scroll_zoom = 1
    /\ WheelRequests = <<SendHWheel("Left", 8)>>

(***************************************************************************)
(* C17: when one report yields a wheel event and a ButtonUp(b) with b in   *)
(* 0..3, the scroll pulses for the wheel event are requested with the      *)
(* scroll_zoom that held before the report, and scroll_zoom is set to b    *)
(* only afterwards: the new speed applies from the next wheel event on.    *)
(***************************************************************************)
SpeedMessages ==
    {i \in 1..Len(sent) :
        sent[i].call = "message" /\ sent[i].what = "Scroll speed"}

WheelAndSpeed == UpdateReturned /\ WheelEvts # <<>> /\ SpeedEvents # {}

C17_OldZoomForWheel ==
    UpdateReturned =>
        /\ WheelEvts # <<>> =>
              WheelRequests =
                 <<SendHWheel(IF WheelEvts[1] = WheelLeft THEN "Left" ELSE "Right",
                              2 ^ prev.scroll_zoom)>>
        /\ \A i \in 1..Len(sent), j \in SpeedMessages :
              sent[i].call = "send_h_wheel" => i < j
        /\ WheelAndSpeed =>
              /\ SpeedMessages # {}
              /\ GLOBAL_STATE.scroll_zoom = Events[LastOf(SpeedEvents)].arg

C17_Witness ==
    /\ WheelAndSpeed
    /\ prev.scroll_zoom = 0
    /\ sent = <<SendHWheel("Right", 1), Message("Scroll speed", 8)>>
    /\ GLOBAL_STATE.scroll_zoom = 3

====
